---- MODULE Spec2Model ----
(***************************************************************************)
(* A model of hook_sql: the query builders of hook.py (build_hooks,        *)
(* build_hook_cte, build_validity_cte, build_query) together with the      *)
(* relational meaning of the SQL they emit, and the manifest compiler of   *)
(* core.py (build_queries, export_queries).                                *)
(*                                                                         *)
(* SQL values are options: None is SQL NULL, Some(x) a non-null value.     *)
(* Strings are sequences of one-character strings, so that quoting,        *)
(* concatenation and separators are computed and not assumed.              *)
(* Timestamps are naturals; Epoch and Infinite stand for the two sentinel  *)
(* literals of build_validity_cte.                                         *)
(***************************************************************************)
EXTENDS Integers, Sequences, FiniteSets, TLC

VARIABLES
    \* ---- hook.py: one call of build_query and one evaluation of its SQL
    source_rows,      \* the source relation: a sequence (bag) of rows
    hooks,            \* build_query's hooks argument
    grain,            \* build_query's grain argument
    time_column,      \* build_query's time_column argument
    start_ts,         \* build_query's start_ts argument
    end_ts,           \* build_query's end_ts argument
    query,            \* the query build_query returned, or NoQuery
    cte__hook,        \* rows of the stage cte__hook
    cte__validity,    \* rows of the stage cte__validity
    result_rows,      \* rows the final SELECT returns
    qpc,              \* position: "args", "built", "hooked", "windowed", "selected", "raised"
    \* ---- core.py: one call of build_queries
    manifest,         \* build_queries' manifest: a sequence of <<table, spec>>
    options,          \* the keyword arguments of the call
    queries,          \* the dict build_queries fills: a sequence of <<table, descriptors>>
    files,            \* the file system under export_path: path -> content
    dirs,             \* the directories that exist under export_path
    error,            \* the exception that left build_queries, or NoError
    bpc               \* position: "call", "loop", "export", "returned", "raised"

hookVars == <<source_rows, hooks, grain, time_column, start_ts, end_ts,
              query, cte__hook, cte__validity, result_rows, qpc>>
coreVars == <<manifest, options, queries, files, dirs, error, bpc>>
vars == <<hookVars, coreVars>>

----------------------------------------------------------------------------
(* Bounds of the model. *)
MaxRows == 3          \* rows of a source relation
MaxTime == 2          \* load and removal timestamps range over 0..MaxTime
MaxKeysetLen == 2     \* characters of a keyset
MaxTables == 2        \* tables of a manifest

----------------------------------------------------------------------------
(* SQL values and strings. *)
None == <<>>
Some(x) == <<x>>
IsNull(v) == v = <<>>
Val(v) == v[1]

Range(s) == {s[i] : i \in 1..Len(s)}

RECURSIVE SeqsUpTo(_, _)
SeqsUpTo(S, n) ==
    IF n = 0 THEN {<<>>}
    ELSE LET shorter == SeqsUpTo(S, n - 1)
         IN  shorter \cup {Append(s, x) : s \in {t \in shorter : Len(t) = n - 1}, x \in S}

Quote == "'"
Separator == "|"

\* The decimal text of a timestamp, as a datetime is rendered into a string.
Digits == <<"0", "1", "2", "3", "4", "5", "6", "7", "8", "9">>
TsText(t) == <<Digits[t + 1]>>
\* CAST('<text>' AS DATETIME(6)): the timestamp a text denotes.
CastDatetime(text) == CHOOSE t \in 0..(Len(Digits) - 1) : TsText(t) = text

Epoch == 0                   \* CAST('1970-01-01 00:00:00' AS DATETIME(6))
Infinite == MaxTime + 1      \* CAST('9999-12-31 23:59:59.999999' AS DATETIME(6))
Times == Epoch..MaxTime

----------------------------------------------------------------------------
(* hook.py, build_hooks.                                                   *)

\* The tokenizer's reading of the text  '<body>'  that the f-string places
\* in the statement: two quotes inside a string are one quote character, a
\* single quote ends the string.  body is what stands between the quote the
\* template opens and the quote it closes.  The result is the string
\* literal's value, or raised when the string ends before the template's
\* closing quote (what follows is then no expression, and parse_one raises).
RECURSIVE ScanString(_, _, _)
ScanString(body, i, acc) ==
    IF i > Len(body) THEN [raised |-> FALSE, value |-> acc]
    ELSE IF body[i] = Quote
         THEN IF i < Len(body) /\ body[i + 1] = Quote
              THEN ScanString(body, i + 2, Append(acc, Quote))
              ELSE [raised |-> TRUE, value |-> acc]
         ELSE ScanString(body, i + 1, Append(acc, body[i]))

\* parse_one(f"CASE WHEN {expression} IS NOT NULL THEN '{keyset}|' + {expression} END AS {name}")
hook_expression(hook) ==
    LET lit == ScanString(hook.keyset \o <<Separator>>, 1, <<>>)
    IN  [raised  |-> lit.raised,
         alias   |-> hook.name,
         operand |-> hook.expression,
         literal |-> lit.value]

\* build_hooks: one expression per hook, in order; the first hook whose
\* statement does not parse raises.
build_hooks(hs) ==
    LET es == [i \in 1..Len(hs) |-> hook_expression(hs[i])]
    IN  [raised |-> \E i \in 1..Len(hs) : es[i].raised,
         exprs  |-> es]

\* The value of  CASE WHEN e IS NOT NULL THEN '<literal>' + e END  on a row.
EvalHook(e, r) ==
    IF IsNull(r[e.operand]) THEN None ELSE Some(e.literal \o Val(r[e.operand]))

\* build_hook_cte: SELECT <hook expressions>, * FROM source_table.
build_hook_cte(source_table, hs) ==
    LET built == build_hooks(hs)
    IN  [raised |-> built.raised,
         select |-> built.exprs,       \* followed by the star
         from   |-> source_table]

\* The rows of a hook projection: every source column, and one column per
\* hook expression under its alias.
HookColumns(cte) == {cte.select[i].alias : i \in 1..Len(cte.select)}
HookRow(cte, r) ==
    [c \in HookColumns(cte) \cup DOMAIN r |->
        IF c \in HookColumns(cte)
        THEN LET i == CHOOSE k \in 1..Len(cte.select) : cte.select[k].alias = c
             IN  EvalHook(cte.select[i], r)
        ELSE r[c]]
EvalHookCte(cte, rows) == [i \in 1..Len(rows) |-> HookRow(cte, rows[i])]

----------------------------------------------------------------------------
(* hook.py, build_validity_cte.                                            *)

LoadedAt == "_record__loaded_at"
RemovedAt == "_record__hash_removed_at"

\* PARTITION BY <grain>: two rows are in one partition when they agree on
\* every grain column (NULLs group together).
GrainKey(r, g) == [k \in 1..Len(g) |-> r[g[k]]]
SamePartition(rows, g, i, j) == GrainKey(rows[i], g) = GrainKey(rows[j], g)
Partition(rows, g, i) == {j \in 1..Len(rows) : SamePartition(rows, g, i, j)}

\* ORDER BY _record__loaded_at (ascending, NULLs first).
Before(a, b) ==
    IF IsNull(a) THEN ~IsNull(b) ELSE ~IsNull(b) /\ Val(a) < Val(b)

\* The orders the window sort may produce: rk[i] is the place of row i in
\* its partition.  A row comes after the rows of its partition that are
\* before it in the order and not after those it ties with, so its place is
\* between FirstPlace and LastPlace, and no two rows of a partition share a
\* place.  Rows that tie on the load timestamp may come out in any order;
\* every window of the statement has the same PARTITION BY and ORDER BY and
\* so reads the one order.
FirstPlace(rows, g, i) ==
    1 + Cardinality({j \in Partition(rows, g, i) :
                        Before(rows[j][LoadedAt], rows[i][LoadedAt])})
LastPlace(rows, g, i) ==
    Cardinality({j \in Partition(rows, g, i) :
                    ~Before(rows[i][LoadedAt], rows[j][LoadedAt])})
RECURSIVE Places(_, _, _)
Places(rows, g, n) ==
    IF n = 0 THEN {<<>>}
    ELSE {Append(rk, p) : rk \in Places(rows, g, n - 1),
                          p \in FirstPlace(rows, g, n)..LastPlace(rows, g, n)}
WindowOrders(rows, g) ==
    {rk \in Places(rows, g, Len(rows)) :
        \A i \in 1..Len(rows) : \A j \in Partition(rows, g, i) \ {i} : rk[j] # rk[i]}

\* LAG(_record__loaded_at) and LEAD(_record__loaded_at) over the window.
Neighbour(rows, g, rk, i, d) ==
    LET at == {j \in Partition(rows, g, i) : rk[j] = rk[i] + d}
    IN  IF at = {} THEN None ELSE rows[CHOOSE j \in at : TRUE][LoadedAt]
Lag(rows, g, rk, i) == Neighbour(rows, g, rk, i, -1)
Lead(rows, g, rk, i) == Neighbour(rows, g, rk, i, 1)

\* LEAST(a, b) of the fabric dialect: NULL arguments are ignored, and the
\* result is NULL when both are NULL.
Least(a, b) ==
    IF IsNull(a) THEN b
    ELSE IF IsNull(b) THEN a
    ELSE IF Val(a) <= Val(b) THEN a ELSE b

Coalesce(a, b) == IF IsNull(a) THEN b ELSE a

\* The text a value contributes to a concatenation.
AsText(c, v) == IF c = LoadedAt THEN TsText(v) ELSE v

\* CONCAT_WS('|', COALESCE(x1, ''), ..., COALESCE(xn, '')).
RECURSIVE ConcatWs(_)
ConcatWs(texts) ==
    IF Len(texts) = 0 THEN <<>>
    ELSE IF Len(texts) = 1 THEN texts[1]
    ELSE texts[1] \o <<Separator>> \o ConcatWs(Tail(texts))

\* Variants of the derived columns that a slip in the window expressions
\* would produce: the neighbour taken from the wrong side, and RANK() in
\* place of ROW_NUMBER().
record_valid_from_lead(rows, g, rk, i) == Coalesce(Lead(rows, g, rk, i), Some(Epoch))
record_is_current_lag(rows, g, rk, i) == IF IsNull(Lag(rows, g, rk, i)) THEN 1 ELSE 0
record_version_rank(rows, g, rk, i) ==
    1 + Cardinality({j \in Partition(rows, g, i) : Before(rows[j][LoadedAt], rows[i][LoadedAt])})

\* A variant with the LEAST of the dialects in which one NULL argument makes
\* the result NULL.
record_valid_to_null_least(rows, g, rk, i) ==
    LET a == rows[i][RemovedAt]
        b == Lead(rows, g, rk, i)
    IN  Coalesce(IF IsNull(a) \/ IsNull(b) THEN None ELSE Least(a, b), Some(Infinite))

record_valid_from(rows, g, rk, i) == Coalesce(Lag(rows, g, rk, i), Some(Epoch))
record_valid_to(rows, g, rk, i) ==
    Coalesce(Least(rows[i][RemovedAt], Lead(rows, g, rk, i)), Some(Infinite))
record_version(rows, g, rk, i) == rk[i]
record_is_current(rows, g, rk, i) == IF IsNull(Lead(rows, g, rk, i)) THEN 1 ELSE 0
record_updated_at(rows, g, rk, i) ==
    Coalesce(Least(rows[i][RemovedAt], Lead(rows, g, rk, i)), rows[i][LoadedAt])
\* A variant that leaves the load timestamp out of the identifier.
record_uid_grain_only(r, g) ==
    Some(ConcatWs([k \in 1..Len(g) |-> IF IsNull(r[g[k]]) THEN <<>> ELSE Val(r[g[k]])]))

record_uid(r, g) ==
    LET cols == g \o <<LoadedAt>>
    IN  Some(ConcatWs([k \in 1..Len(cols) |->
                 IF IsNull(r[cols[k]]) THEN <<>> ELSE AsText(cols[k], Val(r[cols[k]]))]))

DerivedColumns ==
    {"_record__valid_from", "_record__valid_to", "_record__version",
     "_record__is_current", "_record__updated_at", "_record__uid"}

\* build_validity_cte: SELECT *, <the six derived columns> FROM from_table.
build_validity_cte(from_table, g) == [from |-> from_table, grain |-> g]

ValidityRow(rows, g, rk, i) ==
    [c \in DOMAIN rows[i] \cup DerivedColumns |->
        CASE c = "_record__valid_from" -> record_valid_from(rows, g, rk, i)
          [] c = "_record__valid_to"   -> record_valid_to(rows, g, rk, i)
          [] c = "_record__version"    -> Some(record_version(rows, g, rk, i))
          [] c = "_record__is_current" -> Some(record_is_current(rows, g, rk, i))
          [] c = "_record__updated_at" -> record_updated_at(rows, g, rk, i)
          [] c = "_record__uid"        -> record_uid(rows[i], g)
          [] OTHER                     -> rows[i][c]]
EvalValidityCte(cte, rows, rk) ==
    [i \in 1..Len(rows) |-> ValidityRow(rows, cte.grain, rk, i)]

----------------------------------------------------------------------------
(* hook.py, build_query.                                                   *)

\* Python's truth value of a  str | None  argument: None and the empty
\* string are false.
Truthy(ts) == ~IsNull(ts) /\ Val(ts) # <<>>

\* where = parse_one("1=1"), replaced by the BETWEEN predicate
\* "if start_ts and end_ts".
build_where(column, low, high) ==
    IF Truthy(low) /\ Truthy(high)
    THEN [kind |-> "between", column |-> column, low |-> Val(low), high |-> Val(high)]
    ELSE [kind |-> "tautology"]

\* build_query: WITH cte__hook AS (...), cte__validity AS (...)
\*              SELECT * FROM cte__validity WHERE <where>.
build_query(source_table, hs, g, column, low, high) ==
    LET stage1 == build_hook_cte(source_table, hs)
    IN  [raised        |-> stage1.raised,
         cte__hook     |-> stage1,
         cte__validity |-> build_validity_cte("cte__hook", g),
         where         |-> build_where(column, low, high)]

\* A variant with a half-open interval: the upper bound excluded.
EvalWhere_half_open(w, r) ==
    IF w.kind = "tautology" THEN TRUE
    ELSE /\ ~IsNull(r[w.column])
         /\ CastDatetime(w.low) <= Val(r[w.column])
         /\ Val(r[w.column]) < CastDatetime(w.high)

\* The truth of the WHERE predicate on a row: x BETWEEN a AND b is
\* a <= x AND x <= b, and is not true of a NULL x.
EvalWhere(w, r) ==
    IF w.kind = "tautology" THEN TRUE
    ELSE /\ ~IsNull(r[w.column])
         /\ CastDatetime(w.low) <= Val(r[w.column])
         /\ Val(r[w.column]) <= CastDatetime(w.high)

SourceTable == "bronze.northwind.orders"
NoQuery == [raised |-> TRUE]

(* One call of build_query, then the stages of the statement it returned,  *)
(* evaluated over the source relation.                                     *)
BuildQuery ==
    /\ qpc = "args"
    /\ LET q == build_query(SourceTable, hooks, grain, time_column, start_ts, end_ts)
       IN  /\ query' = q
           /\ qpc' = IF q.raised THEN "raised" ELSE "built"
    /\ UNCHANGED <<source_rows, hooks, grain, time_column, start_ts, end_ts,
                   cte__hook, cte__validity, result_rows>>
    /\ UNCHANGED coreVars

RunHookCte ==
    /\ qpc = "built"
    /\ cte__hook' = EvalHookCte(query.cte__hook, source_rows)
    /\ qpc' = "hooked"
    /\ UNCHANGED <<source_rows, hooks, grain, time_column, start_ts, end_ts,
                   query, cte__validity, result_rows>>
    /\ UNCHANGED coreVars

RunValidityCte ==
    /\ qpc = "hooked"
    /\ \E rk \in WindowOrders(cte__hook, query.cte__validity.grain) :
          cte__validity' = EvalValidityCte(query.cte__validity, cte__hook, rk)
    /\ qpc' = "windowed"
    /\ UNCHANGED <<source_rows, hooks, grain, time_column, start_ts, end_ts,
                   query, cte__hook, result_rows>>
    /\ UNCHANGED coreVars

\* result_rows: the positions of the rows of cte__validity that are returned.
RunSelect ==
    /\ qpc = "windowed"
    /\ result_rows' = {i \in 1..Len(cte__validity) : EvalWhere(query.where, cte__validity[i])}
    /\ qpc' = "selected"
    /\ UNCHANGED <<source_rows, hooks, grain, time_column, start_ts, end_ts,
                   query, cte__hook, cte__validity>>
    /\ UNCHANGED coreVars

NextQuery == BuildQuery \/ RunHookCte \/ RunValidityCte \/ RunSelect

----------------------------------------------------------------------------
(* The inputs of build_query and the source relations.                     *)

SourceRow(id, region, loaded, removed) ==
    ("id" :> id) @@ ("region" :> region) @@ (LoadedAt :> Some(loaded)) @@ (RemovedAt :> removed)

Hook(name, keyset, expression) ==
    [name |-> name, keyset |-> keyset, expression |-> expression]

\* The audit columns as a loader writes them: a load timestamp on every
\* row, and a removal timestamp that is NULL or not before the load.
\* <<k, t, d>>: key number k, loaded at t, never removed (d = 0) or removed
\* at t + d - 1.
AuditTriples(nKeys) ==
    {x \in (1..nKeys) \X Times \X (0..(MaxTime + 1)) : x[2] + x[3] - 1 <= MaxTime}

LexLeq(a, b) ==
    \/ a[1] < b[1]
    \/ a[1] = b[1] /\ a[2] < b[2]
    \/ a[1] = b[1] /\ a[2] = b[2] /\ a[3] <= b[3]

\* A relation is a bag of rows: one sequence per bag.
RECURSIVE SortedSeqsUpTo(_, _)
SortedSeqsUpTo(S, n) ==
    IF n = 0 THEN {<<>>}
    ELSE LET shorter == SortedSeqsUpTo(S, n - 1)
             full == {t \in shorter : Len(t) = n - 1}
         IN  shorter \cup
             {Append(p[1], p[2]) :
                p \in {q \in full \X S : Len(q[1]) = 0 \/ LexLeq(q[1][Len(q[1])], q[2])}}

AuditKeys == <<None, Some(<<"1">>)>>
AuditRow(x) ==
    SourceRow(AuditKeys[x[1]], None, x[2], IF x[3] = 0 THEN None ELSE Some(x[2] + x[3] - 1))
AuditRelation(xs) == [i \in 1..Len(xs) |-> AuditRow(xs[i])]
AuditRelations(n) == {AuditRelation(xs) : xs \in SortedSeqsUpTo(AuditTriples(Len(AuditKeys)), n)}

HookIdle ==
    /\ source_rows = <<>> /\ hooks = <<>> /\ grain = <<>>
    /\ time_column = "_record__updated_at"
    /\ start_ts = None /\ end_ts = None
    /\ query = NoQuery /\ cte__hook = <<>> /\ cte__validity = <<>>
    /\ result_rows = {} /\ qpc = "idle"

CoreIdle ==
    /\ manifest = <<>> /\ options = <<>> /\ queries = <<>>
    /\ files = <<>> /\ dirs = {} /\ error = "NoError" /\ bpc = "idle"

\* The validity window over relations of up to MaxRows rows in two grain
\* partitions (a NULL hook and the hook k|1), with ties on the load
\* timestamp.
InitValidity ==
    /\ source_rows \in AuditRelations(MaxRows)
    /\ hooks = <<Hook("_HK__a", <<"k">>, "id")>>
    /\ grain = <<"_HK__a">>
    /\ time_column = "_record__updated_at"
    /\ start_ts = None /\ end_ts = None
    /\ query = NoQuery /\ cte__hook = <<>> /\ cte__validity = <<>>
    /\ result_rows = {} /\ qpc = "args"
    /\ CoreIdle

SpecValidity == InitValidity /\ [][NextQuery]_vars

\* Hook synthesis over keysets of up to MaxKeysetLen characters, quotes
\* among them, and natural keys that are NULL, empty or set.
KeysetChars == {"k", Quote}
Keysets == SeqsUpTo(KeysetChars, MaxKeysetLen)
KeyValues == {None, Some(<<>>), Some(<<"1">>)}
KeyColumns == {"id", "region"}
HookLists ==
    {<<Hook("_HK__a", ks, e)>> : ks \in Keysets, e \in KeyColumns} \cup
    {<<Hook("_HK__a", ks, "id"), Hook("_HK__b", <<"k">>, e)>> : ks \in Keysets, e \in KeyColumns}

InitHooks ==
    /\ source_rows \in {<<SourceRow(a, b, Epoch, None)>> : a \in KeyValues, b \in KeyValues}
    /\ hooks \in HookLists
    /\ grain = <<"_HK__a">>
    /\ time_column = "_record__updated_at"
    /\ start_ts = None /\ end_ts = None
    /\ query = NoQuery /\ cte__hook = <<>> /\ cte__validity = <<>>
    /\ result_rows = {} /\ qpc = "args"
    /\ CoreIdle

SpecHooks == InitHooks /\ [][NextQuery]_vars

\* The identifier over pairs of rows whose grain values are NULL, empty,
\* plain or the separator itself, under a grain of one or two columns.
UidValues == {None, Some(<<>>), Some(<<"a">>), Some(<<"b">>), Some(<<Separator>>)}
UidRows == {SourceRow(a, b, t, None) : a \in UidValues, b \in UidValues, t \in Times}

InitUid ==
    /\ source_rows \in {<<r1, r2>> : r1 \in UidRows, r2 \in UidRows}
    /\ hooks = <<>>
    /\ grain \in {<<"id">>, <<"id", "region">>}
    /\ time_column = "_record__updated_at"
    /\ start_ts = None /\ end_ts = None
    /\ query = NoQuery /\ cte__hook = <<>> /\ cte__validity = <<>>
    /\ result_rows = {} /\ qpc = "args"
    /\ CoreIdle

SpecUid == InitUid /\ [][NextQuery]_vars

\* The final filter over every combination of bounds: omitted (None), the
\* empty string, or the text of a timestamp; on each timestamp column.
TsArgs == {None, Some(<<>>)} \cup {Some(TsText(t)) : t \in Times}
TimeColumns == {"_record__updated_at", LoadedAt, RemovedAt}

InitFilter ==
    /\ source_rows \in AuditRelations(2)
    /\ hooks = <<Hook("_HK__a", <<"k">>, "id")>>
    /\ grain = <<"_HK__a">>
    /\ time_column \in TimeColumns
    /\ start_ts \in TsArgs /\ end_ts \in TsArgs
    /\ query = NoQuery /\ cte__hook = <<>> /\ cte__validity = <<>>
    /\ result_rows = {} /\ qpc = "args"
    /\ CoreIdle

SpecFilter == InitFilter /\ [][NextQuery]_vars

----------------------------------------------------------------------------
(* core.py, build_queries and export_queries.                              *)

\* A manifest is a dict in insertion order: a sequence of <<table, spec>>
\* with distinct tables.  A spec is a dict: a function on the keys it has.
Get(d, key, default) == IF key \in DOMAIN d THEN d[key] ELSE default
Without(d, key) == [k \in DOMAIN d \ {key} |-> d[k]]

\* spec.get("managed") is True
Managed(spec) == Get(spec, "managed", "None") = "True"

\* exp.Table(this=..., db=..., catalog=...)
Table(this, db, catalog) == [catalog |-> catalog, db |-> db, this |-> this]

\* expr.sql(dialect=dialect, pretty=True, identify=identify): the text of a
\* query in a dialect.
Render(expr, opts) ==
    [text |-> expr, dialect |-> opts.dialect, pretty |-> TRUE, identify |-> opts.identify]
AsSql(expr, opts) == IF opts.as_sql THEN Render(expr, opts) ELSE expr

\* The collaborators of module uss: each returns a query over the table it
\* is given.
build_bridge_query(man, source_table) ==
    [kind |-> "bridge", source_table |-> source_table, manifest |-> man]
build_peripheral_query(source_table, source_columns) ==
    [kind |-> "peripheral", source_table |-> source_table, source_columns |-> source_columns]

\* A variant that reads the bridge and the peripheral from the uss target.
HookTargetTable_uss(table, opts) ==
    Table(table, opts.uss_target_schema, opts.uss_target_db)

\* The table the bridge and the peripheral read: the hook's target.
HookTargetTable(table, opts) ==
    Table(table, opts.hook_target_schema, opts.hook_target_db)

\* A variant that names the bridge's target like the peripheral's.
Descriptors_no_prefix(table, opts, hook_query, uss_bridge_query, uss_peripheral_query) ==
    [hook |->
        [target_database |-> opts.hook_target_db,
         target_schema   |-> opts.hook_target_schema,
         target_table    |-> table,
         query           |-> hook_query],
     uss_bridge |->
        [target_database |-> opts.uss_target_db,
         target_schema   |-> opts.uss_target_schema,
         target_table    |-> table,
         query           |-> uss_bridge_query],
     uss_peripheral |->
        [target_database |-> opts.uss_target_db,
         target_schema   |-> opts.uss_target_schema,
         target_table    |-> table,
         query           |-> uss_peripheral_query]]

\* queries[table] = {"hook": {...}, "uss_bridge": {...}, "uss_peripheral": {...}}
Descriptors(table, opts, hook_query, uss_bridge_query, uss_peripheral_query) ==
    [hook |->
        [target_database |-> opts.hook_target_db,
         target_schema   |-> opts.hook_target_schema,
         target_table    |-> table,
         query           |-> hook_query],
     uss_bridge |->
        [target_database |-> opts.uss_target_db,
         target_schema   |-> opts.uss_target_schema,
         target_table    |-> "_bridge__" \o table,
         query           |-> uss_bridge_query],
     uss_peripheral |->
        [target_database |-> opts.uss_target_db,
         target_schema   |-> opts.uss_target_schema,
         target_table    |-> table,
         query           |-> uss_peripheral_query]]

\* The body of the loop for one table that is not managed: hook_query stays
\* None, and the two uss queries are built over the hook's target.
CompileUnmanaged(table, spec, man, opts) ==
    Descriptors(table, opts, None,
        Some(AsSql(build_bridge_query(man, HookTargetTable(table, opts)), opts)),
        Some(AsSql(build_peripheral_query(HookTargetTable(table, opts),
                                          Get(spec, "columns", <<>>)), opts)))

\* create_export_directories: the three directories under export_path.
create_export_directories(existing) == existing \cup {"hook", "uss_bridge", "uss_peripheral"}

QueryTypes == <<"hook", "uss_bridge", "uss_peripheral">>

\* A variant that writes no file where one exists already.
export_queries_keep_existing(qs, fs, opts) ==
    [path \in DOMAIN fs \cup
              {<<QueryTypes[t], qs[k][1]>> : k \in 1..Len(qs), t \in 1..Len(QueryTypes)} |->
        LET hits == {k \in 1..Len(qs) :
                        /\ qs[k][1] = path[2]
                        /\ ~IsNull(qs[k][2][path[1]].query)}
        IN  IF path \in DOMAIN fs /\ ~IsNull(fs[path]) THEN fs[path]
            ELSE IF hits # {}
            THEN Some([text |-> IF opts.as_sql
                                THEN Val(qs[CHOOSE k \in hits : TRUE][2][path[1]].query).text
                                ELSE Val(qs[CHOOSE k \in hits : TRUE][2][path[1]].query),
                       dialect |-> opts.dialect, pretty |-> TRUE, identify |-> opts.identify])
            ELSE None]

\* write_query_file for every descriptor whose query is not None, at
\* <query_type>/<table>.sql; an expression is rendered first.
ExportedText(q, opts) == IF opts.as_sql THEN q ELSE Render(q, opts)
export_queries(qs, fs, opts) ==
    [path \in DOMAIN fs \cup
              {<<QueryTypes[t], qs[k][1]>> : k \in 1..Len(qs), t \in 1..Len(QueryTypes)} |->
        LET hits == {k \in 1..Len(qs) :
                        /\ qs[k][1] = path[2]
                        /\ ~IsNull(qs[k][2][path[1]].query)}
        IN  IF hits # {}
            THEN Some(ExportedText(Val(qs[CHOOSE k \in hits : TRUE][2][path[1]].query), opts))
            ELSE IF path \in DOMAIN fs THEN fs[path] ELSE None]

\* build_queries(**kwargs): a keyword that is no parameter of build_queries
\* is a TypeError before the body runs.
Call ==
    /\ bpc = "call"
    /\ IF options.unexpected # {}
       THEN bpc' = "raised" /\ error' = "TypeError"
       ELSE bpc' = "loop" /\ error' = error
    /\ queries' = <<>>
    /\ UNCHANGED <<manifest, options, files, dirs>>
    /\ UNCHANGED hookVars

\* One pass of  for table, spec in manifest.items().  For a managed table
\* the body evaluates hook.build_hook_query, a name module hook does not
\* define: the AttributeError leaves build_queries.
CompileTable ==
    /\ bpc = "loop"
    /\ Len(queries) < Len(manifest)
    /\ LET table == manifest[Len(queries) + 1][1]
           spec == manifest[Len(queries) + 1][2]
       IN  IF Managed(spec)
           THEN /\ bpc' = "raised"
                /\ error' = "AttributeError"
                /\ queries' = queries
           ELSE /\ queries' = Append(queries,
                                 <<table, CompileUnmanaged(table, spec, manifest, options)>>)
                /\ UNCHANGED <<bpc, error>>
    /\ UNCHANGED <<manifest, options, files, dirs>>
    /\ UNCHANGED hookVars

\* The loop is over: export when export_path is given, and return.
EndLoop ==
    /\ bpc = "loop"
    /\ Len(queries) = Len(manifest)
    /\ bpc' = IF IsNull(options.export_path) THEN "returned" ELSE "export"
    /\ UNCHANGED <<manifest, options, queries, files, dirs, error>>
    /\ UNCHANGED hookVars

Export ==
    /\ bpc = "export"
    /\ dirs' = create_export_directories(dirs)
    /\ files' = export_queries(queries, files, options)
    /\ bpc' = "returned"
    /\ UNCHANGED <<manifest, options, queries, error>>
    /\ UNCHANGED hookVars

Next == Call \/ CompileTable \/ EndLoop \/ Export

----------------------------------------------------------------------------
(* Manifests and options.                                                  *)

TableNames == <<"northwind__orders", "northwind__customers", "northwind__regions">>

CompleteSpec(managed) ==
    [database |-> "bronze", schema |-> "northwind", table |-> "orders",
     grain |-> <<"_HK__a">>, columns |-> <<"id", "region">>,
     hooks |-> <<Hook("_HK__a", <<"k">>, "id")>>,
     invalidate_hard_deletes |-> TRUE, managed |-> managed]

\* The shapes of a table spec: not managed (flag False, or no flag),
\* managed and complete, and the malformed ones: managed with no hooks,
\* managed without table, schema or database.
TableSpecs ==
    {CompleteSpec("False"), Without(CompleteSpec("False"), "managed"),
     CompleteSpec("True"),
     [CompleteSpec("True") EXCEPT !.hooks = <<>>],
     Without(CompleteSpec("True"), "table"),
     Without(CompleteSpec("True"), "schema"),
     Without(CompleteSpec("True"), "database")}

Malformed(spec) ==
    /\ Managed(spec)
    /\ \/ {"table", "schema", "database"} \ DOMAIN spec # {}
       \/ Get(spec, "hooks", <<>>) = <<>>

\* Manifests of up to n tables with distinct names.
RECURSIVE Manifests(_)
Manifests(n) ==
    IF n = 0 THEN {<<>>}
    ELSE LET shorter == Manifests(n - 1)
         IN  shorter \cup
             {Append(p[1], <<p[2], p[3]>>) :
                p \in {q \in shorter \X Range(TableNames) \X TableSpecs :
                         /\ Len(q[1]) = n - 1
                         /\ \A k \in 1..Len(q[1]) : q[1][k][1] # q[2]}}

DefaultOptions ==
    [hook_target_db |-> "silver", hook_target_schema |-> "hook",
     uss_target_db |-> "gold", uss_target_schema |-> "uss",
     as_sql |-> TRUE, dialect |-> "None", export_path |-> None, identify |-> TRUE,
     unexpected |-> {}]

\* The calls: default or custom targets, text or expressions, with or
\* without an export path, and with or without the keywords start_ts and
\* end_ts, which build_queries does not declare.
Calls ==
    {[DefaultOptions EXCEPT !.hook_target_db = t[1], !.hook_target_schema = t[2],
                            !.uss_target_db = t[3], !.uss_target_schema = t[4],
                            !.as_sql = a, !.export_path = e, !.unexpected = u] :
        t \in {<<"silver", "hook", "gold", "uss">>, <<"lake", "keys", "lake", "marts">>},
        a \in BOOLEAN,
        e \in {None, Some("export")},
        u \in {{}, {"start_ts", "end_ts"}}}

\* What is on disk under export_path before the call: nothing, or the
\* files of an earlier export of the first table.
OldText == [text |-> "old"]
Disks ==
    {<<>>,
     (<<"hook", TableNames[1]>> :> Some(OldText)) @@
     (<<"uss_bridge", TableNames[1]>> :> Some(OldText))}

Init ==
    /\ manifest \in Manifests(MaxTables)
    /\ options \in Calls
    /\ files \in Disks
    /\ dirs = IF files = <<>> THEN {} ELSE {"hook", "uss_bridge"}
    /\ queries = <<>>
    /\ error = "NoError"
    /\ bpc = "call"
    /\ HookIdle

Spec == Init /\ [][Next]_vars

----------------------------------------------------------------------------
(* Properties of the validity stage.                                       *)

Windowed == qpc \in {"windowed", "selected"}
V(i, c) == cte__validity[i][c]
Rows == 1..Len(cte__validity)
\* The rows of the grain partition of row i in the validity stage.
Part(i) == Partition(cte__validity, grain, i)
Current(i) == {j \in Part(i) : V(j, "_record__is_current") = Some(1)}

C4_Versions ==
    Windowed =>
        \A i \in Rows :
            /\ {V(j, "_record__version") : j \in Part(i)}
                  = {Some(v) : v \in 1..Cardinality(Part(i))}
            /\ V(i, "_record__version") = Some(1) =>
                  \A k \in Part(i) : ~Before(V(k, LoadedAt), V(i, LoadedAt))
            /\ \A j \in Part(i) :
                  Before(V(i, LoadedAt), V(j, LoadedAt)) =>
                      Val(V(i, "_record__version")) < Val(V(j, "_record__version"))

\* A partition of three rows, two of which tie on the load timestamp, next
\* to a row of another partition.
C4_Witness ==
    /\ Windowed
    /\ \E i \in Rows :
          /\ Cardinality(Part(i)) = 3
          /\ \E j \in Part(i) \ {i} : V(i, LoadedAt) = V(j, LoadedAt)
          /\ \E j \in Part(i) : Before(V(i, LoadedAt), V(j, LoadedAt))
          /\ V(i, "_record__version") = Some(2)

\* The row that follows row i in its partition: the one numbered one more.
Following(i) ==
    {j \in Part(i) : V(j, "_record__version") = Some(Val(V(i, "_record__version")) + 1)}
\* The timestamps that can close the window of row i: its own removal and the
\* load of the following row, where they exist.
Closings(i) ==
    ({V(i, RemovedAt)} \cup {V(j, LoadedAt) : j \in Following(i)}) \ {None}

\* C11: in the output of build_validity_cte, for every row, _record__valid_to
\* is the earlier of the row's own removal timestamp and the load timestamp of
\* the next row of its partition when both exist, the one that exists when
\* only one exists, and the infinite sentinel exactly when the row has
\* neither.
C11_ValidTo ==
    Windowed =>
        \A i \in Rows :
            /\ Closings(i) # {} =>
                  /\ V(i, "_record__valid_to") \in Closings(i)
                  /\ \A t \in Closings(i) : Val(V(i, "_record__valid_to")) <= Val(t)
            /\ Closings(i) = {} <=> V(i, "_record__valid_to") = Some(Infinite)

\* A row removed after the next row of its partition was loaded, so that the
\* next load closes its window, a row closed by its removal alone, and a row
\* with neither.
C11_Witness ==
    /\ Windowed
    /\ \E i \in Rows : \E j \in Following(i) :
          /\ ~IsNull(V(i, RemovedAt))
          /\ Val(V(j, LoadedAt)) < Val(V(i, RemovedAt))
          /\ V(i, "_record__valid_to") = V(j, LoadedAt)
    /\ \E i \in Rows :
          /\ Following(i) = {} /\ ~IsNull(V(i, RemovedAt))
          /\ V(i, "_record__valid_to") = V(i, RemovedAt)
    /\ \E i \in Rows :
          /\ Following(i) = {} /\ IsNull(V(i, RemovedAt))
          /\ V(i, "_record__valid_to") = Some(Infinite)

\* C5 (as claimed): _record__uid is injective in (grain values, load
\* timestamp): two rows get the same uid exactly when they have the same
\* grain values and the same load timestamp, NULL and the empty string and
\* values with the separator in them included.
C5_UidInjective ==
    Windowed =>
        \A i \in Rows : \A j \in Rows :
            V(i, "_record__uid") = V(j, "_record__uid") <=>
                /\ GrainKey(cte__validity[i], grain) = GrainKey(cte__validity[j], grain)
                /\ V(i, LoadedAt) = V(j, LoadedAt)

\* NULL read as the empty string, as CONCAT_WS's arguments are.
NullAsEmpty(key) == [k \in 1..Len(key) |-> IF IsNull(key[k]) THEN <<>> ELSE Val(key[k])]
UidInput(i) == NullAsEmpty(GrainKey(cte__validity[i], grain))
NoSeparator(i) == \A k \in 1..Len(grain) : Separator \notin Range(UidInput(i)[k])

\* C5 (amended): _record__uid is a function of (grain values with NULL
\* read as the empty string, load timestamp): rows equal in these get equal
\* uid, and two rows none of whose grain values contains the separator get
\* different uid when they differ in one of these.
C5_UidOfNormalisedInput ==
    Windowed =>
        \A i \in Rows : \A j \in Rows :
            /\ (UidInput(i) = UidInput(j) /\ V(i, LoadedAt) = V(j, LoadedAt))
                  => V(i, "_record__uid") = V(j, "_record__uid")
            /\ (NoSeparator(i) /\ NoSeparator(j)
                  /\ V(i, "_record__uid") = V(j, "_record__uid"))
                  => (UidInput(i) = UidInput(j) /\ V(i, LoadedAt) = V(j, LoadedAt))

\* Two rows of a two-column grain that differ only in the load timestamp,
\* one with a NULL and one with an empty first grain value, and whose uids
\* differ.
C5_Witness ==
    /\ Windowed
    /\ Len(grain) = 2
    /\ Len(cte__validity) = 2
    /\ V(1, "id") = None /\ V(2, "id") = Some(<<>>)
    /\ V(1, "region") = V(2, "region") /\ V(1, "region") = Some(<<"a">>)
    /\ V(1, LoadedAt) # V(2, LoadedAt)
    /\ V(1, "_record__uid") # V(2, "_record__uid")

----------------------------------------------------------------------------
(* Properties of the hook stage.                                           *)

Hooked == qpc \in {"hooked", "windowed", "selected"}

\* C1: for every hook (name, keyset, expression) and every row, build_hooks
\* yields a column named as the hook whose value is NULL when the
\* expression's value is NULL and otherwise is the keyset, then '|', then
\* the value.
C1_HookValue ==
    /\ qpc # "raised"
    /\ Hooked =>
          \A i \in 1..Len(source_rows) : \A k \in 1..Len(hooks) :
              /\ hooks[k].name \in DOMAIN cte__hook[i]
              /\ cte__hook[i][hooks[k].name] =
                    IF IsNull(source_rows[i][hooks[k].expression]) THEN None
                    ELSE Some(hooks[k].keyset \o <<Separator>>
                                \o Val(source_rows[i][hooks[k].expression]))

----------------------------------------------------------------------------
(* Properties of the final filter.                                         *)

Built == qpc \in {"built", "hooked", "windowed", "selected"}
InRange(i) ==
    /\ ~IsNull(V(i, time_column))
    /\ CastDatetime(Val(start_ts)) <= Val(V(i, time_column))
    /\ Val(V(i, time_column)) <= CastDatetime(Val(end_ts))

FilterIsBetween ==
    /\ query.where.kind = "between"
    /\ query.where.column = time_column
    /\ query.where.low = Val(start_ts)
    /\ query.where.high = Val(end_ts)

\* C6 (as claimed): the final filter is time_column BETWEEN start AND end
\* exactly when both start_ts and end_ts are supplied (are not None), and is
\* 1=1 otherwise; under 1=1 every row of the validity stage is returned, and
\* under the bounds exactly the rows with start <= time_column <= end.
C6_FilterWhenSupplied ==
    /\ Built =>
          IF ~IsNull(start_ts) /\ ~IsNull(end_ts)
          THEN FilterIsBetween
          ELSE query.where.kind = "tautology"
    /\ qpc = "selected" =>
          IF ~IsNull(start_ts) /\ ~IsNull(end_ts)
          THEN result_rows = {i \in Rows : InRange(i)}
          ELSE result_rows = Rows

\* C6 (amended): the final filter is time_column BETWEEN start AND end
\* exactly when both start_ts and end_ts are given and neither is the empty
\* string, and is 1=1 otherwise; under 1=1 every row of the validity stage
\* is returned, and under the bounds exactly the rows with
\* start <= time_column <= end.
C6_FilterWhenNonEmpty ==
    /\ Built =>
          IF Truthy(start_ts) /\ Truthy(end_ts)
          THEN FilterIsBetween
          ELSE query.where.kind = "tautology"
    /\ qpc = "selected" =>
          IF Truthy(start_ts) /\ Truthy(end_ts)
          THEN result_rows = {i \in Rows : InRange(i)}
          ELSE result_rows = Rows

\* Both bounds given: a row on the lower bound and a row on the upper bound
\* are returned, and no other row is filtered in by mistake.
C6_Witness ==
    /\ qpc = "selected"
    /\ Truthy(start_ts) /\ Truthy(end_ts)
    /\ Len(cte__validity) = 2
    /\ result_rows = {1}
    /\ V(1, time_column) = Some(CastDatetime(Val(end_ts)))
    /\ CastDatetime(Val(start_ts)) < CastDatetime(Val(end_ts))

----------------------------------------------------------------------------
(* Properties of build_queries.                                            *)

Finished == bpc \in {"returned", "raised"}
Compiled == 1..Len(queries)
TableOf(k) == manifest[k][1]
SpecOf(k) == manifest[k][2]
\* The query expression of a descriptor, under the text when as_sql.
Expr(q) == IF options.as_sql THEN Val(q).text ELSE Val(q)

TargetsOf(k, hookKey, bridgeKey, peripheralKey) ==
    LET d == queries[k][2]
    IN  /\ DOMAIN d = {hookKey, bridgeKey, peripheralKey}
        /\ d[hookKey].target_database = options.hook_target_db
        /\ d[hookKey].target_schema = options.hook_target_schema
        /\ d[hookKey].target_table = TableOf(k)
        /\ d[bridgeKey].target_database = options.uss_target_db
        /\ d[bridgeKey].target_schema = options.uss_target_schema
        /\ d[bridgeKey].target_table = "_bridge__" \o TableOf(k)
        /\ d[peripheralKey].target_database = options.uss_target_db
        /\ d[peripheralKey].target_schema = options.uss_target_schema
        /\ d[peripheralKey].target_table = TableOf(k)

WellFormedManaged(spec) == Managed(spec) /\ ~Malformed(spec)

\* C9: for every well-formed table with managed = True the result holds a
\* hook query: the two-stage query over database.schema.table and the
\* table's grain, with the filter 1=1 when the call passes no bounds and
\* the BETWEEN filter when it passes start_ts and end_ts.
C9_ManagedHookQuery ==
    Finished =>
        \A k \in 1..Len(manifest) :
            WellFormedManaged(SpecOf(k)) =>
                /\ bpc = "returned"
                /\ k \in Compiled
                /\ ~IsNull(queries[k][2].hook.query)
                /\ LET q == Expr(queries[k][2].hook.query)
                       spec == SpecOf(k)
                   IN  /\ q.cte__hook =
                             build_hook_cte(Table(spec.table, spec.schema, spec.database),
                                            spec.hooks)
                       /\ q.cte__validity = build_validity_cte("cte__hook", spec.grain)
                       /\ q.where.kind =
                             IF options.unexpected = {} THEN "tautology" ELSE "between"

\* C10: when a table of the manifest is malformed, every other table is
\* still compiled: the result is returned and holds the three descriptors
\* of each table that is not malformed.  (Stated for the manifests whose
\* other tables are not managed, and for calls without further keywords.)
C10_ErrorsPerTable ==
    ( /\ Finished
      /\ options.unexpected = {}
      /\ \E k \in 1..Len(manifest) : Malformed(SpecOf(k))
      /\ \A k \in 1..Len(manifest) : Malformed(SpecOf(k)) \/ ~Managed(SpecOf(k)) )
    => \A k \in 1..Len(manifest) :
          ~Malformed(SpecOf(k)) =>
              /\ bpc = "returned"
              /\ \E j \in Compiled :
                    /\ queries[j][1] = TableOf(k)
                    /\ queries[j][2] =
                          CompileUnmanaged(TableOf(k), SpecOf(k), manifest, options)

----------------------------------------------------------------------------
(* Properties of the export.                                               *)

\* The content of the file at a path, None where there is no file.
FileAt(fs, path) == IF path \in DOMAIN fs THEN fs[path] ELSE None
\* The descriptors of kind t compiled for the table named n.
DescriptorsAt(t, n) == {queries[k][2][t] : k \in {c \in Compiled : TableOf(c) = n}}
\* c is the text of the query q of a descriptor, as export_queries renders it.
IsTextOf(c, q) ==
    c = Some([text |-> Expr(q), dialect |-> options.dialect,
              pretty |-> TRUE, identify |-> options.identify])

ExportStep ==
    /\ (files' # files \/ dirs' # dirs) =>
          /\ bpc = "export" /\ ~IsNull(options.export_path)
          /\ Len(queries) = Len(manifest)
          /\ \A k \in 1..Len(manifest) : queries[k][1] = manifest[k][1]
    /\ (bpc = "loop" /\ bpc' = "returned") => IsNull(options.export_path)
    /\ (bpc = "export" /\ bpc' = "returned") =>
          /\ dirs' = dirs \cup {"hook", "uss_bridge", "uss_peripheral"}
          /\ \A path \in DOMAIN files \cup DOMAIN files' \cup
                            (Range(QueryTypes) \X Range(TableNames)) :
                LET written == {d \in DescriptorsAt(path[1], path[2]) : ~IsNull(d.query)}
                IN  IF written # {}
                    THEN \A d \in written : IsTextOf(FileAt(files', path), d.query)
                    ELSE FileAt(files', path) = FileAt(files, path)

\* C12: when an export path is given, build_queries exports only after every
\* table has been compiled; the export creates the directories hook,
\* uss_bridge and uss_peripheral, writes the query of every descriptor that
\* has one to <directory of its kind>/<table>.sql in place of what the file
\* held, and for a descriptor without a query writes nothing and leaves the
\* file at that path as it was.
C12_ExportLayout == [][ExportStep]_vars

\* After an export over files of an earlier export: the hook file of a
\* table that is not managed still holds the old text, its bridge file holds
\* the new query, and its peripheral file has been created in a directory
\* that did not exist.
C12_Witness ==
    /\ bpc = "returned" /\ ~IsNull(options.export_path)
    /\ {"hook", "uss_bridge", "uss_peripheral"} \subseteq dirs
    /\ \E k \in Compiled :
          /\ IsNull(queries[k][2]["hook"].query)
          /\ FileAt(files, <<"hook", TableOf(k)>>) = Some(OldText)
          /\ IsTextOf(FileAt(files, <<"uss_bridge", TableOf(k)>>), queries[k][2]["uss_bridge"].query)
          /\ IsTextOf(FileAt(files, <<"uss_peripheral", TableOf(k)>>),
                      queries[k][2]["uss_peripheral"].query)
    /\ \E k \in Compiled :
          /\ FileAt(files, <<"hook", TableOf(k)>>) = None
          /\ ~IsNull(FileAt(files, <<"uss_bridge", TableOf(k)>>))

====
